---------------------------- MODULE Spec2Model ----------------------------
(***************************************************************************)
(* SQL Query Assistant (src/app.py, src/utils/*.py).                       *)
(*                                                                         *)
(* Two specifications over one state:                                      *)
(*   SpecSchema  SchemaManager.add_table / clear_all called in any order   *)
(*               by two browser sessions that share the cache directory;   *)
(*   Spec        the Streamlit script main() of one session, run once per  *)
(*               user event, step by step.                                 *)
(*                                                                         *)
(* Text is a sequence of tokens (strings).  The SQL parser, the LLM        *)
(* backend, the CSV reader and the SQLite engine are outside the           *)
(* repository: their answers are inputs, drawn from small sets.            *)
(***************************************************************************)
EXTENDS Integers, Sequences, FiniteSets, TLC

VARIABLES
    tables,          \* st.session_state.tables, per session
    disk,            \* files of the directory "schema_cache": name -> content
    ops,             \* history: the SchemaManager calls made so far (SpecSchema)
    accepts,         \* the parser's answers: set of <<query, reader>> it accepts
    uploaded_files,  \* value of the file_uploader widget
    query_input,     \* value of the text_area with key "query_input"
    validation_query,\* value of the text_area with key "validation_query"
    dialect_choice,  \* value of the dialect selectbox
    clicked,         \* the button whose click caused the current script run
    pc,              \* position of the script run
    idx,             \* position of the upload loop (app.py:143)
    dialect,         \* local variable dialect of main()
    error,           \* local variable error of main()
    calls,           \* history: the calls of the current (or last) script run
    outputs,         \* what the current (or last) script run displayed
    rendered,        \* widgets the current (or last) script run created
    tried,           \* history: the correction on screen when "Try corrected query" was clicked
    query_source     \* history: who wrote query_input last

vars == <<tables, disk, ops, accepts, uploaded_files, query_input, validation_query,
          dialect_choice, clicked, pc, idx, dialect, error, calls, outputs,
          rendered, tried, query_source>>

appVars == <<accepts, uploaded_files, query_input, validation_query, dialect_choice,
             clicked, pc, idx, dialect, error, calls, outputs, rendered, tried,
             query_source>>

-----------------------------------------------------------------------------
(* Bounds *)

MaxBatch == 2
MaxOps == 3

Sessions == {"s1", "s2"}
Self == "s1"

EmptyMap == [x \in {} |-> x]

RECURSIVE SeqsUpTo(_, _)
SeqsUpTo(S, n) ==
    IF n = 0 THEN {<<>>}
    ELSE LET shorter == SeqsUpTo(S, n - 1)
         IN shorter \cup {Append(q, x) : q \in {r \in shorter : Len(r) = n - 1}, x \in S}

-----------------------------------------------------------------------------
(* Uploaded files: a name (sequence of characters) and the content, which  *)
(* pandas either reads into a DataFrame or rejects.                        *)

Files ==
    { [name |-> <<"S", ".", "c", "s", "v">>,      csv |-> "rows1"],
      [name |-> <<"s", ".", "c", "s", "v">>,      csv |-> "rows2"],
      [name |-> <<"q", "-", ".", "c", "s", "v">>, csv |-> "malformed"] }

\* pd.read_csv(uploaded_file): a DataFrame, or an exception
read_csv(uploaded_file) ==
    IF uploaded_file.csv = "malformed"
    THEN [raised |-> TRUE, df |-> "none"]
    ELSE [raised |-> FALSE, df |-> uploaded_file.csv]

RECURSIVE LastDot(_, _)
LastDot(s, i) == IF i = 0 THEN 0 ELSE IF s[i] = "." THEN i ELSE LastDot(s, i - 1)

\* os.path.splitext(file_name)[0]: the name up to its last dot, a leading dot kept
splitext(file_name) ==
    LET d == LastDot(file_name, Len(file_name))
    IN IF d > 1 THEN SubSeq(file_name, 1, d - 1) ELSE file_name

\* SchemaManager._get_table_name.  The module imports pandas, streamlit, os,
\* hashlib and typing (lines 1-5) but not re, so evaluating re.sub on line 15
\* raises NameError on every call; lines 15-16 never produce a name.
_get_table_name(file_name) ==
    LET name == splitext(file_name)
    IN [raised |-> TRUE, exc |-> "NameError: name 're' is not defined", name |-> name]

\* SchemaManager._get_cache_path: the file's name inside self.schema_cache_dir,
\* which is the same directory "schema_cache" for every session
_get_cache_path(table_name) == table_name \o <<".parquet">>

\* file.endswith('.parquet')
IsParquet(file) == Len(file) > 0 /\ file[Len(file)] = ".parquet"

\* SchemaManager.get_schema on one session's st.session_state
get_schema(st) == IF st.present THEN st.t ELSE EmptyMap

\* SchemaManager.add_table on session state st and directory dk: the new
\* session state and directory, the exception that escapes (or "none"), and
\* the st.error message shown (or "none")
add_table(st, dk, uploaded_file) ==
    LET tn == _get_table_name(uploaded_file.name)
    IN IF tn.raised
       THEN [st |-> st, disk |-> dk, raised |-> tn.exc, st_error |-> "none"]
       ELSE LET r == read_csv(uploaded_file)
                cache_path == _get_cache_path(tn.name)
            IN IF r.raised
               THEN [st |-> st, disk |-> dk, raised |-> "none",
                     st_error |-> "Error loading"]
               ELSE [st |-> [present |-> TRUE,
                             t |-> (tn.name :> r.df) @@ get_schema(st)],
                     disk |-> (cache_path :> r.df) @@ dk,
                     raised |-> "none", st_error |-> "none"]

\* a clear_all that forgets the cache files
clear_all_keeps_cache(st, dk) ==
    [st |-> [present |-> FALSE, t |-> EmptyMap], disk |-> dk]

\* SchemaManager.clear_all: drops the session's tables and removes every
\* .parquet file of the directory
clear_all(st, dk) ==
    [st |-> [present |-> FALSE, t |-> EmptyMap],
     disk |-> [f \in {g \in DOMAIN dk : ~IsParquet(g)} |-> dk[f]]]

-----------------------------------------------------------------------------
(* The initial state: a fresh server process.  SchemaManager.__init__      *)
(* creates "schema_cache" with exist_ok=True, so the directory may already *)
(* hold files.                                                             *)

LeftOver ==
    { <<"s", ".parquet">>, <<"o", ".parquet">>, <<"n", ".txt">> }

NoTables == [present |-> FALSE, t |-> EmptyMap]

-----------------------------------------------------------------------------
(* Text *)

\* str.upper() on the tokens that occur
Upper(tok) ==
    CASE tok = "select" -> "SELECT"
      [] tok = "from"   -> "FROM"
      [] tok = "drop"   -> "DROP"
      [] tok = "table"  -> "TABLE"
      [] tok = "top"    -> "TOP"
      [] tok = "[fence]sql" -> "[fence]SQL"
      [] OTHER          -> tok

IsSpace(tok) == tok \in {" ", "\n"}

RECURSIVE lstrip(_)
lstrip(t) == IF t # <<>> /\ IsSpace(Head(t)) THEN lstrip(Tail(t)) ELSE t

RECURSIVE rstrip(_)
rstrip(t) ==
    IF t # <<>> /\ IsSpace(t[Len(t)]) THEN rstrip(SubSeq(t, 1, Len(t) - 1)) ELSE t

\* str.strip()
strip(t) == rstrip(lstrip(t))

\* number of tokens of t that are kw once upper-cased (query.upper().count(kw))
Count(t, kw) == Cardinality({i \in 1..Len(t) : Upper(t[i]) = kw})

Min(a, b) == IF a < b THEN a ELSE b
Max(a, b) == IF a > b THEN a ELSE b

\* the queries a user types
QueryPool ==
    { <<>>,
      <<" ">>,
      <<"select", "*", "from", "t">>,
      <<"SELECT", "top", "5", "*", "FROM", "t">>,
      <<"SELECT", "x", "FROM">>,
      <<"drop", "table", "t">> }

-----------------------------------------------------------------------------
(* The SQL parser (sqlglot), outside the repository.  A reader is what the *)
(* code passes as read=: nothing, a key of dialects.Dialect.classes, a     *)
(* display name of the selectbox, or "Generic".                            *)

DefaultReader == "<none>"

\* dialects.Dialect.classes, in iteration order
DialectClasses == <<"mysql", "postgres", "tsql">>

\* options of the selectbox (app.py:174)
DialectOptions == {"Auto-detect", "MySQL", "PostgreSQL", "SQLite", "MS SQL", "Oracle"}

ClassSet == {DialectClasses[i] : i \in 1..Len(DialectClasses)}

\* What the parser accepts under its own dialect names.
CoreAccepts ==
    ({ <<"select", "*", "from", "t">>, <<"drop", "table", "t">> }
        \X ({DefaultReader} \cup ClassSet))
    \cup { << <<"SELECT", "top", "5", "*", "FROM", "t">>, "tsql" >> }

\* The parser either rejects the selectbox's display names as unknown
\* dialects, or resolves those that differ from a key only in case.
ParserOracles ==
    { CoreAccepts,
      CoreAccepts \cup
        ({ <<"select", "*", "from", "t">>, <<"drop", "table", "t">> }
            \X {"MySQL", "SQLite", "Oracle"}) }

\* parse_one(query, read=reader) returns (TRUE) or raises (FALSE)
parse_one(query, reader) == <<query, reader>> \in accepts

RECURSIVE FirstAccepting(_, _)
FirstAccepting(query, i) ==
    IF i > Len(DialectClasses) THEN "Generic"
    ELSE IF parse_one(query, DialectClasses[i]) THEN DialectClasses[i]
    ELSE FirstAccepting(query, i + 1)

\* app.py detect_sql_dialect
detect_sql_dialect(query) ==
    IF parse_one(query, DefaultReader)
    THEN FirstAccepting(query, 1)
    ELSE "Generic"

\* app.py rate_query_complexity
rate_query_complexity(query) ==
    LET joins    == Min(Count(query, "JOIN"), 2)
        selects  == Min(Count(query, "SELECT") - 1, 2)
        window   == IF \E fn \in {"OVER(", "PARTITION BY", "ROW_NUMBER()"} :
                          Count(query, fn) > 0 THEN 1 ELSE 0
        clauses  == IF \E c \in {"HAVING", "WITH", "RECURSIVE"} :
                          Count(query, c) > 0 THEN 1 ELSE 0
    IN Min(Max(1 + joins + selects + window + clauses, 1), 5)

\* app.py validate_query
validate_query(query, reader) ==
    IF parse_one(query, reader)
    THEN [is_valid |-> TRUE, error |-> "None"]
    ELSE [is_valid |-> FALSE, error |-> "parser diagnostic"]

\* utils/sql_parser.py validate_sql
validate_sql(query, reader) ==
    IF parse_one(query, reader)
    THEN [is_valid |-> TRUE, error |-> "None"]
    ELSE [is_valid |-> FALSE, error |-> "parser diagnostic"]

-----------------------------------------------------------------------------
(* The LLM backend, outside the repository.  A call raises (no HF_TOKEN,   *)
(* network, rate limit) or returns a dict with choices, a str, or an       *)
(* object of another shape.                                                *)

LLMTexts ==
    { <<"[fence]sql", "select", "*", "from", "t", " ", "[fence]">>,
      <<"Error Explanation:", "...">> }

LLMResponses ==
    { [shape |-> "raise", content |-> <<>>],
      [shape |-> "other", content |-> <<>>] }
    \cup { [shape |-> "dict", content |-> t] : t \in LLMTexts }
    \cup { [shape |-> "str", content |-> <<"select", "*", "from", "t">>] }

Sorry == <<"Sorry, I couldn't process that request.">>

\* utils/llm_integration.py get_llm_response, given what the backend does
get_llm_response(resp) ==
    CASE resp.shape = "raise" -> [raised |-> TRUE,  text |-> <<>>]
      [] resp.shape = "dict"  -> [raised |-> FALSE, text |-> resp.content]
      [] resp.shape = "str"   -> [raised |-> FALSE, text |-> resp.content]
      [] OTHER                -> [raised |-> FALSE, text |-> Sorry]

\* app.py explain_error: the backend's text, verbatim
explain_error(query, err, reader, resp) == get_llm_response(resp)

\* re.sub of a leading fence with the sql tag (any case) and of a trailing
\* fence by '' (app.py:102); "[fence]" stands for the three backquotes
sub_fences(t) ==
    LET a == IF t # <<>> /\ Upper(Head(t)) = "[fence]SQL" THEN Tail(t) ELSE t
    IN IF a # <<>> /\ a[Len(a)] = "[fence]" THEN SubSeq(a, 1, Len(a) - 1) ELSE a

\* app.py correct_sql
correct_sql(query, err, reader, resp) ==
    LET r == get_llm_response(resp)
    IN IF r.raised THEN r
       ELSE [raised |-> FALSE, text |-> strip(sub_fences(r.text))]

\* app.py execute_query_on_csv on the session's tables; ran says whether
\* SQLite executes the query against them
execute_query_on_csv(query, reader, st, ran) ==
    IF get_schema(st) = EmptyMap
    THEN [result |-> "None", error |-> "No CSV data uploaded"]
    ELSE IF ran THEN [result |-> "rows", error |-> "None"]
         ELSE [result |-> "None", error |-> "sqlite error"]


-----------------------------------------------------------------------------
(* SpecSchema: the SchemaManager of each session, called directly *)

NoFile == [name |-> <<>>, csv |-> "none"]

Init ==
    /\ tables = [s \in Sessions |-> NoTables]
    /\ disk \in {[f \in D |-> "old"] : D \in SUBSET LeftOver}
    /\ ops = <<>>
    /\ accepts \in ParserOracles
    /\ uploaded_files = <<>>
    /\ query_input = <<>>
    /\ validation_query = <<>>
    /\ dialect_choice = "Auto-detect"
    /\ clicked = "none"
    /\ pc = "idle"
    /\ idx = 1
    /\ dialect = "Auto-detect"
    /\ error = "None"
    /\ calls = <<>>
    /\ outputs = EmptyMap
    /\ rendered = {"uploader", "Clear All Data", "query_input", "dialect", "Analyze Query"}
    /\ tried = <<>>
    /\ query_source = "user"

AddTableOp(s, f) ==
    /\ Len(ops) < MaxOps
    /\ LET r == add_table(tables[s], disk, f)
       IN /\ tables' = [tables EXCEPT ![s] = r.st]
          /\ disk' = r.disk
          /\ ops' = Append(ops, [op |-> "add_table", s |-> s, file |-> f,
                                 raised |-> r.raised, removed |-> {}])
    /\ UNCHANGED appVars

ClearAllOp(s) ==
    /\ Len(ops) < MaxOps
    /\ LET r == clear_all(tables[s], disk)
       IN /\ tables' = [tables EXCEPT ![s] = r.st]
          /\ disk' = r.disk
          /\ ops' = Append(ops, [op |-> "clear_all", s |-> s, file |-> NoFile,
                                 raised |-> "none",
                                 removed |-> DOMAIN disk \ DOMAIN r.disk])
    /\ UNCHANGED appVars

SchemaNext ==
    \E s \in Sessions :
        \/ \E f \in Files : AddTableOp(s, f)
        \/ ClearAllOp(s)

SpecSchema == Init /\ [][SchemaNext]_vars


-----------------------------------------------------------------------------
(* Spec: main() of one session.  Streamlit runs the script from the top on *)
(* every user event; st.button(label) is True only in the run caused by a  *)
(* click on that button.                                                   *)

Buttons == {"Clear All Data", "Analyze Query", "Try corrected query", "Validate Query"}

Button(label) == clicked = label

Show(slot, text) == (slot :> text) @@ outputs

Call(fn, q, out) == [fn |-> fn, q |-> q, out |-> out]

\* a script run starts: app.py:129-140, up to the file_uploader
StartRun(b) ==
    /\ clicked' = b
    /\ pc' = "upload"
    /\ idx' = 1
    /\ dialect' = "unset"
    /\ error' = "None"
    /\ calls' = <<>>
    /\ outputs' = EmptyMap
    /\ rendered' = {"uploader"}

UserUploads ==
    /\ pc = "idle"
    /\ "uploader" \in rendered
    /\ \E fs \in SeqsUpTo(Files, MaxBatch) :
          /\ fs # uploaded_files
          /\ uploaded_files' = fs
    /\ StartRun("none")
    /\ tried' = <<>>
    /\ UNCHANGED <<tables, disk, ops, accepts, query_input, validation_query,
                   dialect_choice, query_source>>

UserEditsText ==
    /\ pc = "idle"
    /\ \E w \in rendered \cap {"query_input", "validation_query"}, q \in QueryPool :
          IF w = "query_input"
          THEN /\ q # query_input
               /\ query_input' = q
               /\ query_source' = "user"
               /\ UNCHANGED validation_query
          ELSE /\ q # validation_query
               /\ validation_query' = q
               /\ UNCHANGED <<query_input, query_source>>
    /\ StartRun("none")
    /\ tried' = <<>>
    /\ UNCHANGED <<tables, disk, ops, accepts, uploaded_files, dialect_choice>>

UserSelectsDialect ==
    /\ pc = "idle"
    /\ "dialect" \in rendered
    /\ \E d \in DialectOptions \ {dialect_choice} : dialect_choice' = d
    /\ StartRun("none")
    /\ tried' = <<>>
    /\ UNCHANGED <<tables, disk, ops, accepts, uploaded_files, query_input,
                   validation_query, query_source>>

UserClicks ==
    /\ pc = "idle"
    /\ \E b \in rendered \cap Buttons :
          /\ StartRun(b)
          /\ tried' = IF b = "Try corrected query" THEN <<outputs["corrected"]>> ELSE <<>>
    /\ UNCHANGED <<tables, disk, ops, accepts, uploaded_files, query_input,
                   validation_query, dialect_choice, query_source>>

\* app.py:142-145, one pass of the loop; an exception that add_table lets
\* escape ends the script run
SidebarUpload ==
    /\ pc = "upload"
    /\ IF idx > Len(uploaded_files)
       THEN /\ pc' = "clear"
            /\ outputs' = IF uploaded_files # <<>> THEN Show("success", <<"Loaded">>)
                          ELSE outputs
            /\ UNCHANGED <<tables, disk, idx, calls>>
       ELSE LET f == uploaded_files[idx]
                r == add_table(tables[Self], disk, f)
            IN /\ calls' = Append(calls, Call("add_table", f.name, r.raised))
               /\ IF r.raised # "none"
                  THEN /\ pc' = "idle"
                       /\ outputs' = Show("exception", <<r.raised>>)
                       /\ UNCHANGED <<tables, disk, idx>>
                  ELSE /\ pc' = "upload"
                       /\ idx' = idx + 1
                       /\ tables' = [tables EXCEPT ![Self] = r.st]
                       /\ disk' = r.disk
                       /\ outputs' = IF r.st_error # "none"
                                     THEN Show("st_error", <<r.st_error>>)
                                     ELSE outputs
    /\ UNCHANGED <<ops, accepts, uploaded_files, query_input, validation_query,
                   dialect_choice, clicked, dialect, error, rendered, tried,
                   query_source>>

\* app.py:147-156.  st.session_state.clear() drops the keyed widgets' values;
\* the selectbox has no key and keeps or loses its value; st.rerun() starts
\* the script again.
SidebarClear ==
    /\ pc = "clear"
    /\ \E d \in {dialect_choice, "Auto-detect"} :
        IF Button("Clear All Data")
        THEN LET r == clear_all(tables[Self], disk)
             IN /\ tables' = [tables EXCEPT ![Self] = r.st]
                /\ disk' = r.disk
                /\ query_input' = <<>>
                /\ validation_query' = <<>>
                /\ query_source' = "cleared"
                /\ dialect_choice' = d
                /\ StartRun("none")
        ELSE /\ pc' = "tab1"
             /\ rendered' = rendered \cup {"Clear All Data"}
             /\ UNCHANGED <<tables, disk, query_input, validation_query, query_source,
                            dialect_choice, clicked, idx, dialect, error, calls,
                            outputs>>
    /\ UNCHANGED <<ops, accepts, uploaded_files, tried>>

\* app.py:161-196: the widgets of the first tab, and the start of
\* "Analyze Query" up to validate_query
Tab1 ==
    /\ pc = "tab1"
    /\ rendered' = rendered \cup {"query_input", "dialect", "Analyze Query"}
    /\ IF ~Button("Analyze Query")
       THEN /\ pc' = "tab2"
            /\ dialect' = dialect_choice
            /\ UNCHANGED <<error, calls, outputs>>
       ELSE IF strip(query_input) = <<>>
       THEN /\ pc' = "idle"
            /\ dialect' = dialect_choice
            /\ outputs' = Show("warning", <<"Please enter a SQL query">>)
            /\ UNCHANGED <<error, calls>>
       ELSE LET auto == dialect_choice = "Auto-detect"
                d == IF auto THEN detect_sql_dialect(query_input) ELSE dialect_choice
                v == validate_query(query_input, d)
            IN /\ dialect' = d
               /\ error' = v.error
               /\ calls' = calls
                    \o (IF auto THEN <<Call("detect_sql_dialect", query_input, d)>>
                        ELSE <<>>)
                    \o <<Call("validate_query", query_input,
                              IF v.is_valid THEN "valid" ELSE v.error)>>
               /\ pc' = IF v.is_valid THEN "valid" ELSE "invalid"
               /\ UNCHANGED outputs
    /\ UNCHANGED <<tables, disk, ops, accepts, uploaded_files, query_input,
                   validation_query, dialect_choice, clicked, idx, tried, query_source>>

\* app.py:198-209
AnalyzeValid ==
    /\ pc = "valid"
    /\ \E ran \in BOOLEAN :
        IF get_schema(tables[Self]) # EmptyMap
        THEN LET r == execute_query_on_csv(query_input, dialect, tables[Self], ran)
             IN /\ calls' = Append(calls, Call("execute_query_on_csv", query_input, r.error))
                /\ error' = r.error
                /\ outputs' = (IF r.error # "None"
                               THEN "execution error" :> <<r.error>>
                               ELSE "dataframe" :> <<r.result>>)
                              @@ Show("success", <<"Query is valid">>)
        ELSE /\ outputs' = Show("success", <<"Query is valid">>)
             /\ UNCHANGED <<calls, error>>
    /\ pc' = "tab2"
    /\ UNCHANGED <<tables, disk, ops, accepts, uploaded_files, query_input,
                   validation_query, dialect_choice, clicked, idx, dialect, rendered,
                   tried, query_source>>

\* app.py:210-219; an exception of the LLM call ends the script run
AnalyzeExplain ==
    /\ pc = "invalid"
    /\ \E resp \in LLMResponses :
        LET r == explain_error(query_input, error, dialect, resp)
        IN /\ calls' = Append(calls, Call("explain_error", query_input, resp.shape))
           /\ IF r.raised
              THEN /\ pc' = "idle"
                   /\ outputs' = Show("exception", <<"LLM call failed">>)
              ELSE /\ pc' = "correct"
                   /\ outputs' = Show("explanation", r.text)
    /\ UNCHANGED <<tables, disk, ops, accepts, uploaded_files, query_input,
                   validation_query, dialect_choice, clicked, idx, dialect, error,
                   rendered, tried, query_source>>

\* app.py:221-227
AnalyzeCorrect ==
    /\ pc = "correct"
    /\ \E resp \in LLMResponses :
        LET r == correct_sql(query_input, error, dialect, resp)
        IN IF r.raised
           THEN /\ calls' = Append(calls, Call("correct_sql", query_input, resp.shape))
                /\ pc' = "idle"
                /\ outputs' = Show("exception", <<"LLM call failed">>)
                /\ UNCHANGED <<query_input, query_source, rendered, clicked, idx,
                               dialect, error>>
           ELSE IF Button("Try corrected query")
           THEN /\ query_input' = r.text
                /\ query_source' = "correction"
                /\ StartRun("none")
           ELSE /\ calls' = Append(calls, Call("correct_sql", query_input, resp.shape))
                /\ pc' = "tab2"
                /\ outputs' = Show("corrected", r.text)
                /\ rendered' = rendered \cup {"Try corrected query"}
                /\ UNCHANGED <<query_input, query_source, clicked, idx, dialect, error>>
    /\ UNCHANGED <<tables, disk, ops, accepts, uploaded_files, validation_query,
                   dialect_choice, tried>>


\* app.py:241-276, "Validate Query" from its blank check to its end: the
\* calls made, what is displayed, and the locals dialect and error
ValidateRun(ran, resp1, resp2) ==
    LET q == validation_query
        auto == dialect = "Auto-detect"
        d == IF auto THEN detect_sql_dialect(q) ELSE dialect
        v == validate_query(q, d)
        c1 == calls
              \o (IF auto THEN <<Call("detect_sql_dialect", q, d)>> ELSE <<>>)
              \o <<Call("validate_query", q, IF v.is_valid THEN "valid" ELSE v.error)>>
        x == execute_query_on_csv(q, d, tables[Self], ran)
        c2 == Append(c1, Call("execute_query_on_csv", q, x.error))
        e == explain_error(q, x.error, d, resp1)
        c3 == Append(c2, Call("explain_error", q, resp1.shape))
        c == correct_sql(q, x.error, d, resp2)
        c4 == Append(c3, Call("correct_sql", q, resp2.shape))
    IN IF strip(q) = <<>>
       THEN [calls |-> calls, dialect |-> dialect, error |-> error,
             outputs |-> Show("warning", <<"Please enter a SQL query">>)]
       ELSE IF ~v.is_valid
       THEN [calls |-> c1, dialect |-> d, error |-> v.error,
             outputs |-> Show("syntax error", <<v.error>>)]
       ELSE IF x.error = "None"
       THEN [calls |-> c2, dialect |-> d, error |-> x.error,
             outputs |-> Show("dataframe", <<x.result>>)]
       ELSE IF e.raised
       THEN [calls |-> c3, dialect |-> d, error |-> x.error,
             outputs |-> ("exception" :> <<"LLM call failed">>)
                         @@ Show("data validation error", <<x.error>>)]
       ELSE IF c.raised
       THEN [calls |-> c4, dialect |-> d, error |-> x.error,
             outputs |-> ("exception" :> <<"LLM call failed">>)
                         @@ ("explanation" :> e.text)
                         @@ Show("data validation error", <<x.error>>)]
       ELSE [calls |-> c4, dialect |-> d, error |-> x.error,
             outputs |-> ("corrected" :> c.text) @@ ("explanation" :> e.text)
                         @@ Show("data validation error", <<x.error>>)]

\* app.py:229-276: the second tab, which ends the script run
Tab2 ==
    /\ pc = "tab2"
    /\ pc' = "idle"
    /\ \E ran \in BOOLEAN, resp1 \in LLMResponses, resp2 \in LLMResponses :
        IF get_schema(tables[Self]) = EmptyMap
        THEN /\ outputs' = Show("tab2 warning", <<"Upload CSV files">>)
             /\ UNCHANGED <<rendered, calls, dialect, error>>
        ELSE IF ~Button("Validate Query")
        THEN /\ rendered' = rendered \cup {"validation_query", "Validate Query"}
             /\ UNCHANGED <<outputs, calls, dialect, error>>
        ELSE LET r == ValidateRun(ran, resp1, resp2)
             IN /\ rendered' = rendered \cup {"validation_query", "Validate Query"}
                /\ calls' = r.calls
                /\ dialect' = r.dialect
                /\ error' = r.error
                /\ outputs' = r.outputs
    /\ UNCHANGED <<tables, disk, ops, accepts, uploaded_files, query_input,
                   validation_query, dialect_choice, clicked, idx, tried, query_source>>

Next ==
    \/ UserUploads
    \/ UserEditsText
    \/ UserSelectsDialect
    \/ UserClicks
    \/ SidebarUpload
    \/ SidebarClear
    \/ Tab1
    \/ AnalyzeValid
    \/ AnalyzeExplain
    \/ AnalyzeCorrect
    \/ Tab2

Spec == Init /\ [][Next]_vars


-----------------------------------------------------------------------------
(* Properties *)

Last(q) == q[Len(q)]

\* The derived table name of the specification: the file name without its
\* extension, every character outside [a-zA-Z0-9_] replaced by "_", lower-cased.
DerivedName(file_name) ==
    LET stem == splitext(file_name)
        under(c) == IF c \in {"S", "s", "q", "c", "v", "_"} THEN c ELSE "_"
        lower(c) == IF c = "S" THEN "s" ELSE c
    IN [i \in 1..Len(stem) |-> lower(under(stem[i]))]

CallsOf(fns) == {k \in 1..Len(calls) : calls[k].fn \in fns}

HasKeyword(q, kw) == Count(q, kw) > 0

LLMFailure == {"raise", "other"}

\* Because _get_table_name raises on every call, no session ever holds a
\* table, the directory never receives a file, and neither call site of
\* execute_query_on_csv (app.py:203-205, app.py:230-261) is reached.
NoSessionHoldsTable == \A s \in Sessions : get_schema(tables[s]) = EmptyMap

NoCacheFileWritten == \A f \in DOMAIN disk : f \in LeftOver /\ disk[f] = "old"

ExecuteNeverReached == CallsOf({"execute_query_on_csv"}) = {}

\* C2: after any sequence of add_table and clear_all calls (failing add_table
\* calls included) every table of a session's in-memory schema has its cache
\* file in the directory, and right after a clear_all the caller's schema is
\* empty and the directory holds no cache file.
C2_SchemaMatchesCache ==
    /\ \A s \in Sessions : \A n \in DOMAIN get_schema(tables[s]) :
          _get_cache_path(n) \in DOMAIN disk
    /\ (ops # <<>> /\ Last(ops).op = "clear_all") =>
          /\ get_schema(tables[Last(ops).s]) = EmptyMap
          /\ \A f \in DOMAIN disk : ~IsParquet(f)

\* a clear_all that follows a (failed) add_table of the same session, removes
\* cache files it found and leaves the file that is no cache file
C2_Witness ==
    /\ Len(ops) >= 2
    /\ Last(ops).op = "clear_all"
    /\ Last(ops).removed # {}
    /\ \E i \in 1..(Len(ops) - 1) : ops[i].op = "add_table" /\ ops[i].s = Last(ops).s
    /\ <<"n", ".txt">> \in DOMAIN disk

\* C3: when a session uploads a well-formed file right after another
\* well-formed file with the same derived table name, its schema then has that
\* name holding the second file's data, the cache file holds the second file's
\* data, and every other table of the schema is unchanged.
C3_SameNameUploadOverwrites ==
    [][ (/\ ops # <<>>
         /\ ops' # ops
         /\ Last(ops).op = "add_table"
         /\ Last(ops').op = "add_table"
         /\ Last(ops).s = Last(ops').s
         /\ Last(ops).file.csv # "malformed"
         /\ Last(ops').file.csv # "malformed"
         /\ DerivedName(Last(ops).file.name) = DerivedName(Last(ops').file.name))
        =>
        LET s == Last(ops').s
            f == Last(ops').file
            n == DerivedName(f.name)
            before == get_schema(tables[s])
            after == get_schema(tables'[s])
        IN /\ DOMAIN after = DOMAIN before \cup {n}
           /\ n \in DOMAIN after /\ after[n] = f.csv
           /\ _get_cache_path(n) \in DOMAIN disk'
           /\ disk'[_get_cache_path(n)] = f.csv
           /\ \A m \in DOMAIN before \ {n} : after[m] = before[m]
      ]_vars

\* C4: when the script run has gone through a batch of uploaded files that
\* holds a malformed file, add_table was called once for every file of the
\* batch, every well-formed file's table is in the schema and the malformed
\* file's table is not.
C4_BatchSurvivesBadFile ==
    (pc = "idle" /\ \E i \in 1..Len(uploaded_files) : uploaded_files[i].csv = "malformed")
    =>
    /\ Cardinality(CallsOf({"add_table"})) = Len(uploaded_files)
    /\ \A i \in 1..Len(uploaded_files) :
          LET f == uploaded_files[i]
              bad == f.csv = "malformed"
              others == {uploaded_files[j].name :
                           j \in {k \in 1..Len(uploaded_files) :
                                    uploaded_files[k].csv # "malformed"}}
          IN IF bad
             THEN DerivedName(f.name) \in DOMAIN get_schema(tables[Self])
                    => DerivedName(f.name) \in {DerivedName(o) : o \in others}
             ELSE DerivedName(f.name) \in DOMAIN get_schema(tables[Self])

\* C5: when an "Analyze Query" run whose syntax validation failed is over, the
\* Explainer was called once and then the Corrector once, whatever the LLM
\* call of the Explainer did.
C5_ExplainThenCorrect ==
    (/\ pc = "idle"
     /\ clicked = "Analyze Query"
     /\ \E k \in CallsOf({"validate_query"}) : calls[k].out # "valid")
    =>
    /\ Cardinality(CallsOf({"explain_error"})) = 1
    /\ Cardinality(CallsOf({"correct_sql"})) = 1
    /\ \A i \in CallsOf({"explain_error"}), j \in CallsOf({"correct_sql"}) : i < j

\* C6: when the script run caused by a click on "Try corrected query" is
\* over, query_input is the correction that was on screen; and query_input
\* never holds a correction the user did not ask for with that click.
C6_TryCorrectedApplies ==
    /\ (pc = "idle" /\ clicked = "Try corrected query") =>
          /\ tried # <<>>
          /\ query_input = tried[1]
    /\ query_source = "correction" => tried # <<>>

\* C7: an explanation or correction step whose LLM call failed, or returned
\* an object of an unrecognised shape, displays no explanation, no corrected
\* SQL and no "Try corrected query" button.
C7_LLMFailureIsVisible ==
    /\ (\E k \in CallsOf({"explain_error"}) : calls[k].out \in LLMFailure)
          => "explanation" \notin DOMAIN outputs
    /\ (\E k \in CallsOf({"correct_sql"}) : calls[k].out \in LLMFailure)
          => /\ "corrected" \notin DOMAIN outputs
             /\ "Try corrected query" \notin rendered

\* C8: detect_sql_dialect returns the first dialect, in the order of the
\* candidates, under which the query parses, and the no-dialect result only
\* when it parses under none of them.
C8_DetectFirstParsing ==
    \A k \in CallsOf({"detect_sql_dialect"}) :
        /\ calls[k].out = FirstAccepting(calls[k].q, 1)
        /\ calls[k].out = "Generic" =>
              \A i \in 1..Len(DialectClasses) : ~parse_one(calls[k].q, DialectClasses[i])

\* C9: syntax validation of a query whose text holds neither SELECT nor FROM
\* (in any case) fails with the error kind "missing required clause", under
\* every dialect.
C9_MissingClauseRejected ==
    \A k \in CallsOf({"validate_query"}) :
        (~HasKeyword(calls[k].q, "SELECT") /\ ~HasKeyword(calls[k].q, "FROM"))
        => /\ calls[k].out = "missing required clause"
           /\ \A r \in {DefaultReader} \cup ClassSet \cup DialectOptions :
                 /\ ~validate_query(calls[k].q, r).is_valid
                 /\ ~validate_sql(calls[k].q, r).is_valid


=============================================================================
